---- MODULE Spec2Model ----
(***************************************************************************)
(* Model of scraper/src/worker.py: the RabbitMQ worker that receives a     *)
(* batch of symbols / instrument ids (or the sentinel __DONE), fetches     *)
(* quotes or popularities from the upstream API and stores them in MongoDB.*)
(*                                                                         *)
(* Python values are modelled as follows: a dict is a record whose DOMAIN  *)
(* is the set of keys present; an optional scalar (a value or None) is a   *)
(* set with at most one element ({} is None); an exception is the string   *)
(* of its class name; a URL is the sequence of its path segments.          *)
(***************************************************************************)
EXTENDS Integers, Sequences, FiniteSets, TLC

(* ------------------------------ bounds -------------------------------- *)
\* frames of fetch_quote / fetch_popularity that one invocation may stack
MaxDepth == 3
\* messages the dispatch loop delivers in a run
MaxMessages == 1
\* largest value datetime.utcnow() takes
MaxClock == 1

(* ------------------------- program constants -------------------------- *)
QuoteUnknownSleep == 120
QuoteTimeoutSleep == 30
PopularityUnknownSleep == 120
CallSelfSleep == 30
DefaultCooldown == 1

(* ------------------------------ values -------------------------------- *)
None == {}
Some(v) == {v}
IsNone(o) == o = {}
Get(o) == CHOOSE v \in o : TRUE

\* dict.get(key): the value, or None when the key is absent
DictGet(d, key) == IF key \in DOMAIN d THEN d[key] ELSE None

Last(s) == s[Len(s)]
Range(s) == {s[i] : i \in 1..Len(s)}

\* filter(f, seq) keeping order
RECURSIVE SelectSeqBy(_, _)
SelectSeqBy(s, keep) ==
    IF s = <<>> THEN <<>>
    ELSE IF Head(s) \in keep THEN <<Head(s)>> \o SelectSeqBy(Tail(s), keep)
         ELSE SelectSeqBy(Tail(s), keep)

(* ------------------- helpers imported from utils/common --------------- *)
InstrumentIds == {"1", "2"}

\* https://api.robinhood.com/instruments/<id>/ with or without trailing slash
Url(id, slash) ==
    IF slash THEN <<"api.robinhood.com", "instruments", id, "">>
    ELSE <<"api.robinhood.com", "instruments", id>>

\* utils.parse_instrument_url: the last non-empty path segment
parse_instrument_url(url) ==
    LET nonEmpty == {i \in 1..Len(url) : url[i] # ""}
        last == CHOOSE i \in nonEmpty : \A j \in nonEmpty : j <= i
    IN url[last]

\* the ISO-8601 strings the upstream sends, and the instants they denote
IsoStrings == {"2019-01-01T00:00:01Z", "2019-01-01T00:00:02Z"}
IsoInstant(s) == IF s = "2019-01-01T00:00:01Z" THEN 1 ELSE 2

\* utils.parse_updated_at: None passes through, a string becomes an instant
parse_updated_at(o) == IF IsNone(o) THEN None ELSE Some(IsoInstant(Get(o)))

DESIRED_QUOTE_KEYS ==
    {"symbol", "bid_price", "ask_price", "updated_at", "has_traded", "trading_halted"}

\* utils.pluck: the projection of a dict on the wanted keys it has
pluck(keys, d) == [k \in (keys \cap DOMAIN d) |-> d[k]]

\* the detail strings of a response: a retry-after phrase or something else
ThrottleNumbers == {5}
ThrottleUnits == {"seconds", "minutes"}
Phrase(n, unit) == [kind |-> "phrase", n |-> n, unit |-> unit]
EmptyDetail == [kind |-> "empty", n |-> 0, unit |-> ""]
GarbageDetail == [kind |-> "garbage", n |-> 0, unit |-> ""]
Details ==
    {Phrase(n, u) : n \in ThrottleNumbers, u \in ThrottleUnits}
        \cup {EmptyDetail, GarbageDetail}

\* common.parse_throttle_res: seconds of the phrase; fails on anything else
ThrottleParses(detail) == detail.kind = "phrase"
parse_throttle_res(detail) ==
    IF detail.unit = "minutes" THEN detail.n * 60 ELSE detail.n

\* truth value of a str
TruthyDetail(o) == ~IsNone(o) /\ Get(o).kind # "empty"

(* ----------------------- what the upstream sends ---------------------- *)
NoneEntry == [isNone |-> TRUE]

RawQuote(id, slash, iso) ==
    [instrument |-> Url(id, slash), symbol |-> id, bid_price |-> "1.00",
     ask_price |-> "1.10", updated_at |-> Some(iso), has_traded |-> Some(TRUE),
     trading_halted |-> Some(FALSE)]

Q1 == RawQuote("1", TRUE, "2019-01-01T00:00:01Z")
Q1Later == RawQuote("1", FALSE, "2019-01-01T00:00:02Z")
Q2 == RawQuote("2", FALSE, "2019-01-01T00:00:01Z")
\* a quote the upstream has no timestamp for: updated_at is null
Q2NullTime == [Q2 EXCEPT !.updated_at = None]
\* records that lack a key the worker subscripts
QNoInstrument == [k \in DOMAIN Q1 \ {"instrument"} |-> Q1[k]]
QNoUpdatedAt == [k \in DOMAIN Q2 \ {"updated_at"} |-> Q2[k]]

QuoteBatches ==
    {<<>>, <<NoneEntry>>, <<Q1, NoneEntry, Q2>>, <<Q2, Q1>>, <<Q1Later>>,
     <<Q2NullTime>>, <<QNoInstrument>>, <<Q1, QNoUpdatedAt>>}

RawPopularity(id, slash, n) ==
    [instrument |-> Url(id, slash), num_open_positions |-> n]

P1 == RawPopularity("1", TRUE, 7)
P1Again == RawPopularity("1", FALSE, 9)
P2 == RawPopularity("2", TRUE, 3)
PNoCount == [instrument |-> Url("2", TRUE)]

PopularityBatches ==
    {<<>>, <<P1>>, <<P1, P2>>, <<P1, P2, P1Again>>, <<P2, NoneEntry>>,
     <<P1, PNoCount>>}

Batches(m) == IF m = "quote" THEN QuoteBatches ELSE PopularityBatches

\* a batch whose normalisation raises KeyError, per mode
BadBatches(m) == IF m = "quote" THEN {<<QNoInstrument>>, <<Q1, QNoUpdatedAt>>}
                 ELSE {<<P1, PNoCount>>}

\* such a batch sent together with a detail
BadBatchesWithDetail(m) == IF m = "quote" THEN {<<Q1, QNoUpdatedAt>>}
                           ELSE {<<P1, PNoCount>>}

\* the dicts a call to the upstream may return
Responses(m) ==
    {[other |-> "unexpected"]}
        \cup {[detail |-> Some(d)] : d \in Details}
        \cup {[results |-> None]}
        \cup {[results |-> Some(b)] : b \in Batches(m)}
        \cup {[results |-> Some(b), detail |-> Some(Phrase(5, "seconds"))] :
                 b \in BadBatchesWithDetail(m)}

\* the exceptions TRADER.quote_data / TRADER.get_url may raise
UpstreamErrors(m) ==
    {"ReadTimeout", "JSONDecodeError", "TypeError"}
        \cup (IF m = "quote" THEN {"InvalidTickerSymbol"} ELSE {})

NoError == "none"
NoResponse == [unset |-> TRUE]

(* ------------------------------- state -------------------------------- *)
VARIABLES
    mode,          \* --mode of this worker process
    configured,    \* --worker_request_cooldown_seconds of this worker process
    body,          \* the decoded body of the message being handled
    pc,            \* where the worker is
    stack,         \* the frames of fetch_quote / fetch_popularity, innermost last
    res,           \* the local `res` of the innermost frame
    exc,           \* the exception in flight
    locals,        \* locals of store_quotes / fetch_popularity between steps
    log,           \* what the innermost frame has done so far
    prev,          \* what the frame that called it did before the call
    handled,       \* messages delivered so far
    clock,         \* datetime.utcnow()
    indexCol,      \* get_db()["index"]: instrument_id -> entry, or None
    factCol,       \* get_db()["quotes"] or ["popularity"]: documents in insertion order
    quotesFinished,        \* the flag set_quotes_finished() sets
    popularitiesFinished,  \* the flag set_popularities_finished() sets
    queue,         \* the mode's RabbitMQ queue: bodies not yet sent to a consumer
    inbox,         \* deliveries this worker's connection holds, not yet dispatched
    others         \* the other worker processes of the mode, each as a Process

vars == <<mode, configured, body, pc, stack, res, exc, locals, log, prev, handled, clock,
          indexCol, factCol, quotesFinished, popularitiesFinished, queue, inbox, others>>

dbVars == <<indexCol, factCol>>
flagVars == <<quotesFinished, popularitiesFinished>>
procVars == <<mode, configured, body>>
fleetVars == <<queue, inbox, others>>

Modes == {"quote", "popularity"}
ConfiguredCooldowns == {DefaultCooldown, 4}

\* message bodies the producer puts on the channel
Bodies(m) ==
    {"__DONE", "__DONE "}
        \cup (IF m = "quote" THEN {"AAPL,MSFT"} ELSE {"1,2"})

NoLocals == [unset |-> TRUE]

\* WORK_CBS: the collection name of each mode
CollectionName(m) == IF m = "quote" THEN "quotes" ELSE "popularity"

Top == Last(stack)

\* one thing the invocation did: op is the call made, what its outcome, ids the
\* identifier string it was made for, n its numeric argument
Event(op, what, ids, n) ==
    [op |-> op, what |-> what, ids |-> ids, n |-> n, depth |-> Len(stack)]
Logged(op, what, ids, n) == Append(log, Event(op, what, ids, n))

(* --------------------- what an attempt was answered ------------------- *)
\* the shape of an upstream outcome, recorded with the api event
Shape(o) ==
    IF "raises" \in DOMAIN o THEN o.raises
    ELSE LET r == o.returns IN
         IF "results" \notin DOMAIN r
         THEN IF "detail" \notin DOMAIN r THEN "neither"
              ELSE Get(r.detail).kind
         ELSE IF "detail" \in DOMAIN r THEN "results+detail"
              ELSE IF IsNone(r.results) THEN "null_results"
              ELSE IF Get(r.results) \in BadBatches(mode) THEN "bad_records"
              ELSE IF Range(Get(r.results)) \subseteq {NoneEntry} THEN "empty_results"
              ELSE IF mode = "popularity" /\ NoneEntry \in Range(Get(r.results))
                   THEN "none_record"
              ELSE "results"

\* the seconds a retry-after phrase stands for (0 for any other outcome)
AskedSeconds(o) ==
    IF Shape(o) = "phrase"
    THEN LET d == Get(o.returns.detail)
         IN IF d.unit = "seconds" THEN d.n ELSE 60 * d.n
    ELSE 0

Outcomes(m) ==
    {[raises |-> e] : e \in UpstreamErrors(m)}
        \cup {[returns |-> r] : r \in Responses(m)}

(* ------------------------------ startup ------------------------------- *)
FreshIndexEntry ==
    [timestamp |-> None, has_traded |-> None, updated_at |-> None,
     trading_halted |-> None]

\* datetime.datetime.utcnow(): some time not before the last one read
UtcNow(t) ==
    /\ t \in clock..MaxClock
    /\ clock' = t

(* --------------------------- dispatch loop ---------------------------- *)
\* handle_work: the arguments the callback passes to work_cb
WorkFrame(message) ==
    [ids |-> message, collection |-> CollectionName(mode),
     sleep |-> "rabbitmq_connection.sleep", cooldown |-> configured]

Deliver(message) ==
    /\ pc = "idle"
    /\ handled < MaxMessages
    /\ handled' = handled + 1
    /\ body' = message
    /\ stack' = <<WorkFrame(message)>>
    /\ log' = <<>>
    /\ prev' = <<>>
    /\ res' = NoResponse
    /\ exc' = NoError
    /\ locals' = NoLocals
    /\ pc' = "entry"
    /\ UNCHANGED <<mode, configured, clock, dbVars, flagVars, fleetVars>>

\* a frame returns to its caller; the outermost returns to the dispatch loop
Return ==
    /\ pc = "return"
    /\ stack' = SubSeq(stack, 1, Len(stack) - 1)
    /\ pc' = IF Len(stack) = 1 THEN "idle" ELSE "return"
    /\ res' = NoResponse
    /\ UNCHANGED <<procVars, fleetVars, prev, exc, locals, log, handled, clock, dbVars, flagVars>>

\* an exception no frame catches leaves handle_work and start_consuming
Raise(e) ==
    /\ exc' = e
    /\ pc' = "crashed"

(* ------------------------- sentinel handling -------------------------- *)
\* a prefix test in place of the equality
QuoteIsSentinelByPrefix(symbols) == symbols \in {"__DONE", "__DONE "}

QuoteIsSentinel(symbols) == symbols = "__DONE"
PopularityIsSentinel(instrument_ids) == instrument_ids = "__DONE"

FetchQuoteEntry ==
    /\ pc = "entry"
    /\ mode = "quote"
    /\ IF QuoteIsSentinel(Top.ids)
       THEN /\ quotesFinished' = TRUE
            /\ log' = Logged("set_quotes_finished", "ok", Top.ids, 0)
            /\ pc' = "return"
       ELSE /\ pc' = "fetch"
            /\ UNCHANGED <<quotesFinished, log>>
    /\ UNCHANGED <<procVars, fleetVars, prev, stack, res, exc, locals, handled, clock, dbVars,
                   popularitiesFinished>>

FetchPopularityEntry ==
    /\ pc = "entry"
    /\ mode = "popularity"
    /\ IF PopularityIsSentinel(Top.ids)
       THEN /\ popularitiesFinished' = TRUE
            /\ log' = Logged("set_popularities_finished", "ok", Top.ids, 0)
            /\ pc' = "return"
       ELSE /\ pc' = "fetch"
            /\ UNCHANGED <<popularitiesFinished, log>>
    /\ UNCHANGED <<procVars, fleetVars, prev, stack, res, exc, locals, handled, clock, dbVars,
                   quotesFinished>>

(* ------------------------------ the store ----------------------------- *)
\* the same operation built with upsert=True
UpdateOneUpsert(col, op) ==
    [col EXCEPT ![op.instrument_id] =
        Some([k \in (IF IsNone(@) THEN {} ELSE DOMAIN Get(@)) \cup DOMAIN op.set |->
                 IF k \in DOMAIN op.set THEN op.set[k] ELSE Get(@)[k]])]

\* UpdateOne({"instrument_id": id}, {"$set": data}): no upsert is asked for,
\* so only a document that exists is changed
UpdateOne(col, op) ==
    IF IsNone(col[op.instrument_id]) THEN col
    ELSE [col EXCEPT ![op.instrument_id] =
             Some([k \in DOMAIN Get(@) \cup DOMAIN op.set |->
                      IF k \in DOMAIN op.set THEN op.set[k] ELSE Get(@)[k]])]

\* bulk_write(ops, ordered=False): every operation not in `failed` is applied
RECURSIVE BulkWrite(_, _, _, _)
BulkWrite(col, ops, failed, i) ==
    IF i > Len(ops) THEN col
    ELSE BulkWrite(IF i \in failed THEN col ELSE UpdateOne(col, ops[i]),
                   ops, failed, i + 1)

\* the unique index of the quotes collection: (instrument_id, updated_at)
DuplicateKey(col, doc) ==
    \E j \in 1..Len(col) : /\ col[j].instrument_id = doc.instrument_id
                           /\ col[j].updated_at = doc.updated_at

\* insert_many(docs, ordered=False) on the quotes collection: a document is
\* written unless its key is taken or its write fails for another reason
RECURSIVE InsertUnordered(_, _, _, _)
InsertUnordered(col, docs, failed, i) ==
    IF i > Len(docs) THEN col
    ELSE InsertUnordered(
             IF i \in failed \/ DuplicateKey(col, docs[i]) THEN col
             ELSE Append(col, docs[i]),
             docs, failed, i + 1)

\* the same call with ordered=True: the first failing document ends it
RECURSIVE InsertOrdered(_, _, _, _)
InsertOrdered(col, docs, failed, i) ==
    IF i > Len(docs) THEN col
    ELSE IF i \in failed \/ DuplicateKey(col, docs[i]) THEN col
    ELSE InsertOrdered(Append(col, docs[i]), docs, failed, i + 1)

InsertManyOrdered(col, docs, failed) == InsertOrdered(col, docs, failed, 1)

\* collection.insert_many(quotes, ordered=False)
InsertMany(col, docs, failed) == InsertUnordered(col, docs, failed, 1)

\* map_quote stamping the document with the time of the store instead of the
\* quote's own updated_at
map_quote_stamped(quote) ==
    LET plucked == pluck(DESIRED_QUOTE_KEYS, quote)
    IN [k \in DOMAIN plucked \cup {"instrument_id"} |->
           IF k = "instrument_id" THEN parse_instrument_url(quote.instrument)
           ELSE IF k = "updated_at" THEN Some(clock)
           ELSE plucked[k]]

\* store_quotes.map_quote
map_quote(quote) ==
    LET plucked == pluck(DESIRED_QUOTE_KEYS, quote)
        doc == [k \in DOMAIN plucked \cup {"instrument_id"} |->
                   IF k = "instrument_id" THEN parse_instrument_url(quote.instrument)
                   ELSE plucked[k]]
    IN [doc EXCEPT !.updated_at = parse_updated_at(@)]

map_quote_raises(quote) == "updated_at" \notin DOMAIN pluck(DESIRED_QUOTE_KEYS, quote)

\* store_quotes.format_quote
format_quote_raises(quote) ==
    ~({"symbol", "bid_price", "ask_price"} \subseteq DOMAIN quote)

\* store_quotes.update_index_symbol
update_index_symbol(datum, timestamp) ==
    [instrument_id |-> parse_instrument_url(datum.instrument),
     set |-> [timestamp |-> Some(timestamp),
              has_traded |-> DictGet(datum, "has_traded"),
              updated_at |-> parse_updated_at(DictGet(datum, "updated_at")),
              trading_halted |-> DictGet(datum, "trading_halted")]]

update_index_symbol_raises(datum) == "instrument" \notin DOMAIN datum

\* quotes = list(filter(lambda quote: quote != None, quotes))
FilterNone(quotes) == SelectSeqBy(quotes, Range(quotes) \ {NoneEntry})

SeqMap2(s, t) == [i \in 1..Len(s) |-> update_index_symbol(s[i], t)]
MapQuotes(s) == [i \in 1..Len(s) |-> map_quote(s[i])]

(* ----------------------------- fetch_quote ---------------------------- *)
\* the recursive call without its worker_request_cooldown_seconds keyword
QuoteRetryFrameDefaultCooldown(f) ==
    [ids |-> f.ids, collection |-> f.collection, sleep |-> f.sleep,
     cooldown |-> DefaultCooldown]

\* the arguments of the recursive call after a throttle cooldown
QuoteRetryFrame(f) ==
    [ids |-> f.ids, collection |-> f.collection, sleep |-> f.sleep,
     cooldown |-> f.cooldown]

\* the recursive call handed the index collection instead of `collection`
QuoteTimeoutRetryFrameIndexCol(f) ==
    [ids |-> f.ids, collection |-> "index", sleep |-> f.sleep,
     cooldown |-> f.cooldown]

\* the arguments of the recursive call after a read timeout
QuoteTimeoutRetryFrame(f) ==
    [ids |-> f.ids, collection |-> f.collection, sleep |-> f.sleep,
     cooldown |-> f.cooldown]

\* res = TRADER.quote_data(symbols); quotes = res["results"]
FetchQuote ==
    /\ pc = "fetch"
    /\ mode = "quote"
    /\ \E o \in Outcomes(mode) :
          /\ log' = Logged("api", Shape(o), Top.ids, AskedSeconds(o))
          /\ IF "raises" \in DOMAIN o
             THEN /\ exc' = o.raises
                  /\ pc' = "except"
                  /\ UNCHANGED res
             ELSE /\ res' = o.returns
                  /\ IF "results" \in DOMAIN o.returns
                     THEN pc' = "store_quotes" /\ UNCHANGED exc
                     ELSE pc' = "except" /\ exc' = "KeyError"
    /\ UNCHANGED <<procVars, fleetVars, prev, stack, locals, handled, clock, dbVars, flagVars>>

\* store_quotes up to and including INDEX_COL.bulk_write(ops, ordered=False)
StoreQuotesIndex ==
    /\ pc = "store_quotes"
    /\ \E timestamp \in clock..MaxClock :
       LET raw == res.results
           quotes == FilterNone(Get(raw))
           ops == SeqMap2(quotes, timestamp)
       IN IF IsNone(raw)
          THEN /\ exc' = "TypeError" /\ pc' = "except"
               /\ UNCHANGED <<log, locals, indexCol, clock>>
          ELSE IF \E i \in 1..Len(quotes) : format_quote_raises(quotes[i])
          THEN /\ exc' = "KeyError" /\ pc' = "except"
               /\ UNCHANGED <<log, locals, indexCol, clock>>
          ELSE IF \E i \in 1..Len(quotes) : update_index_symbol_raises(quotes[i])
          THEN /\ exc' = "KeyError" /\ pc' = "except"
               /\ UtcNow(timestamp)
               /\ UNCHANGED <<log, locals, indexCol>>
          ELSE IF ops = <<>>
          THEN /\ exc' = "InvalidOperation" /\ pc' = "except"
               /\ log' = Logged("bulk_write", "InvalidOperation", Top.ids, 0)
               /\ UtcNow(timestamp)
               /\ UNCHANGED <<locals, indexCol>>
          ELSE \E failed \in SUBSET (1..Len(ops)) :
                  /\ UtcNow(timestamp)
                  /\ indexCol' = BulkWrite(indexCol, ops, failed, 1)
                  /\ IF failed = {}
                     THEN /\ log' = Logged("bulk_write", "ok", Top.ids, Len(ops))
                          /\ locals' = [quotes |-> quotes]
                          /\ pc' = "insert"
                          /\ UNCHANGED exc
                     ELSE /\ log' = Logged("bulk_write", "BulkWriteError", Top.ids,
                                           Len(ops) - Cardinality(failed))
                          /\ exc' = "BulkWriteError"
                          /\ pc' = "except"
                          /\ UNCHANGED locals
    /\ UNCHANGED <<procVars, fleetVars, prev, stack, res, handled, factCol, flagVars>>

\* store_quotes from quotes = list(map(map_quote, quotes)) to its end; the
\* except clause swallows the BulkWriteError and prints the write errors whose
\* errmsg is not a duplicate key
StoreQuotesInsert ==
    /\ pc = "insert"
    /\ LET quotes == locals.quotes IN
       IF \E i \in 1..Len(quotes) : map_quote_raises(quotes[i])
       THEN /\ exc' = "KeyError" /\ pc' = "except"
            /\ UNCHANGED <<log, factCol>>
       ELSE \E failed \in SUBSET (1..Len(quotes)) :
               /\ factCol' = InsertMany(factCol, MapQuotes(quotes), failed)
               /\ log' = Logged("insert_many",
                                IF Len(factCol') = Len(factCol) + Len(quotes) THEN "ok"
                                ELSE IF failed = {} THEN "BulkWriteError duplicate key"
                                ELSE "BulkWriteError printed",
                                Top.ids, Len(factCol') - Len(factCol))
               /\ pc' = "pace"
               /\ UNCHANGED exc
    /\ locals' = NoLocals
    /\ UNCHANGED <<procVars, fleetVars, prev, stack, res, handled, clock, indexCol, flagVars>>

\* sleep(worker_request_cooldown_seconds) after the store
QuotePace ==
    /\ pc = "pace"
    /\ mode = "quote"
    /\ log' = Logged("sleep", "pace", Top.ids, Top.cooldown)
    /\ pc' = "return"
    /\ UNCHANGED <<procVars, fleetVars, prev, stack, res, exc, locals, handled, clock, dbVars, flagVars>>

\* the unknown branch without its `return`: control falls through to
\* parse_throttle_res(res["detail"])
QuoteUnknownWithoutReturn ==
    /\ pc = "except"
    /\ mode = "quote"
    /\ exc = "KeyError"
    /\ ~TruthyDetail(DictGet(res, "detail"))
    /\ log' = Logged("sleep", "unknown", Top.ids, QuoteUnknownSleep)
    /\ Raise(IF "detail" \in DOMAIN res THEN "MalformedCooldown" ELSE "KeyError")
    /\ UNCHANGED <<procVars, fleetVars, prev, stack, res, locals, handled, clock, dbVars, flagVars>>

\* except KeyError, no usable detail: sleep(120); return
QuoteUnknown ==
    /\ pc = "except"
    /\ mode = "quote"
    /\ exc = "KeyError"
    /\ ~TruthyDetail(DictGet(res, "detail"))
    /\ log' = Logged("sleep", "unknown", Top.ids, QuoteUnknownSleep)
    /\ exc' = NoError
    /\ pc' = "return"
    /\ UNCHANGED <<procVars, fleetVars, prev, stack, res, locals, handled, clock, dbVars, flagVars>>

\* except KeyError with a detail: sleep(cooldown_seconds); fetch_quote(...)
QuoteThrottled ==
    /\ pc = "except"
    /\ mode = "quote"
    /\ exc = "KeyError"
    /\ TruthyDetail(DictGet(res, "detail"))
    /\ ThrottleParses(Get(res.detail))
    /\ Len(stack) < MaxDepth
    /\ prev' = Logged("sleep", "throttle", Top.ids, parse_throttle_res(Get(res.detail)))
    /\ log' = <<>>
    /\ stack' = Append(stack, QuoteRetryFrame(Top))
    /\ exc' = NoError
    /\ res' = NoResponse
    /\ pc' = "entry"
    /\ UNCHANGED <<procVars, fleetVars, locals, handled, clock, dbVars, flagVars>>

\* parse_throttle_res fails inside the handler: nothing catches it
QuoteThrottleUnparsable ==
    /\ pc = "except"
    /\ mode = "quote"
    /\ exc = "KeyError"
    /\ TruthyDetail(DictGet(res, "detail"))
    /\ ~ThrottleParses(Get(res.detail))
    /\ Raise("MalformedCooldown")
    /\ UNCHANGED <<procVars, fleetVars, prev, stack, res, locals, log, handled, clock, dbVars, flagVars>>

\* except InvalidTickerSymbol: print and return
QuoteInvalidTicker ==
    /\ pc = "except"
    /\ mode = "quote"
    /\ exc = "InvalidTickerSymbol"
    /\ exc' = NoError
    /\ pc' = "return"
    /\ UNCHANGED <<procVars, fleetVars, prev, stack, res, locals, log, handled, clock, dbVars, flagVars>>

\* except requests.exceptions.ReadTimeout: sleep(30); fetch_quote(...)
QuoteReadTimeout ==
    /\ pc = "except"
    /\ mode = "quote"
    /\ exc = "ReadTimeout"
    /\ Len(stack) < MaxDepth
    /\ prev' = Logged("sleep", "timeout", Top.ids, QuoteTimeoutSleep)
    /\ log' = <<>>
    /\ stack' = Append(stack, QuoteTimeoutRetryFrame(Top))
    /\ exc' = NoError
    /\ res' = NoResponse
    /\ pc' = "entry"
    /\ UNCHANGED <<procVars, fleetVars, locals, handled, clock, dbVars, flagVars>>

\* fetch_quote without its `except InvalidTickerSymbol` clause
QuoteCaughtNoInvalidTickerSymbol == {"KeyError", "ReadTimeout"}

\* the except clauses of fetch_quote
QuoteCaught == {"KeyError", "InvalidTickerSymbol", "ReadTimeout"}

\* any other exception leaves fetch_quote
QuoteUncaught ==
    /\ pc = "except"
    /\ mode = "quote"
    /\ exc \notin QuoteCaught
    /\ Raise(exc)
    /\ UNCHANGED <<procVars, fleetVars, prev, stack, res, locals, log, handled, clock, dbVars, flagVars>>

(* --------------------------- fetch_popularity ------------------------- *)
\* reduce_popularity keeping the count already in acc: {instrument_id: count, **acc}
reduce_popularity_first_wins(acc, datum) ==
    LET id == parse_instrument_url(datum.instrument)
    IN IF \E i \in 1..Len(acc) : acc[i].instrument_id = id THEN acc
       ELSE Append(acc, [instrument_id |-> id, popularity |-> datum.num_open_positions])

\* fetch_popularity.reduce_popularity: {**acc, instrument_id: count}
reduce_popularity(acc, datum) ==
    LET id == parse_instrument_url(datum.instrument)
        at == {i \in 1..Len(acc) : acc[i].instrument_id = id}
    IN IF at = {}
       THEN Append(acc, [instrument_id |-> id, popularity |-> datum.num_open_positions])
       ELSE [i \in 1..Len(acc) |->
                IF i \in at THEN [acc[i] EXCEPT !.popularity = datum.num_open_positions]
                ELSE acc[i]]

\* what subscripting datum["instrument"], datum["num_open_positions"] raises
reduce_popularity_raises(datum) ==
    IF datum = NoneEntry THEN "TypeError"
    ELSE IF {"instrument", "num_open_positions"} \subseteq DOMAIN datum THEN NoError
    ELSE "KeyError"

\* reduce(reduce_popularity, results, {})
RECURSIVE Reduce(_, _)
Reduce(results, acc) ==
    IF results = <<>> THEN acc
    ELSE Reduce(Tail(results), reduce_popularity(acc, Head(results)))

ReduceRaises(results) ==
    LET bad == {i \in 1..Len(results) : reduce_popularity_raises(results[i]) # NoError}
    IN IF bad = {} THEN NoError
       ELSE reduce_popularity_raises(results[CHOOSE i \in bad : \A j \in bad : i <= j])

\* the documents store_popularities builds, one per key of the map
PopularityDocuments(popularity_map, timestamp) ==
    [i \in 1..Len(popularity_map) |->
        [timestamp |-> timestamp,
         instrument_id |-> popularity_map[i].instrument_id,
         popularity |-> popularity_map[i].popularity]]

\* truth value of res.get("results")
TruthyResults(o) == ~IsNone(o) /\ Get(o) # <<>>

\* call_self: the arguments of the recursive call
CallSelfFrame(f) ==
    [ids |-> f.ids, collection |-> f.collection, sleep |-> f.sleep,
     cooldown |-> f.cooldown]

\* the arguments of the recursive call after a throttle cooldown
PopularityRetryFrame(f) ==
    [ids |-> f.ids, collection |-> f.collection, sleep |-> f.sleep,
     cooldown |-> f.cooldown]

\* res = TRADER.get_url(url); popularities = reduce(..., res["results"], {})
FetchPopularity ==
    /\ pc = "fetch"
    /\ mode = "popularity"
    /\ \E o \in Outcomes(mode) :
          /\ log' = Logged("api", Shape(o), Top.ids, AskedSeconds(o))
          /\ IF "raises" \in DOMAIN o
             THEN /\ exc' = o.raises
                  /\ pc' = "except"
                  /\ UNCHANGED <<res, locals>>
             ELSE /\ res' = o.returns
                  /\ IF "results" \notin DOMAIN o.returns
                     THEN pc' = "except" /\ exc' = "KeyError" /\ UNCHANGED locals
                     ELSE IF IsNone(o.returns.results)
                     THEN pc' = "except" /\ exc' = "TypeError" /\ UNCHANGED locals
                     ELSE IF ReduceRaises(Get(o.returns.results)) # NoError
                     THEN /\ pc' = "except"
                          /\ exc' = ReduceRaises(Get(o.returns.results))
                          /\ UNCHANGED locals
                     ELSE /\ pc' = "store_popularities"
                          /\ locals' = [popularities |->
                                           Reduce(Get(o.returns.results), <<>>)]
                          /\ UNCHANGED exc
    /\ UNCHANGED <<procVars, fleetVars, prev, stack, handled, clock, dbVars, flagVars>>

\* store_popularities: collection.insert_many(mapped_documents), ordered
StorePopularities ==
    /\ pc = "store_popularities"
    /\ \E timestamp \in clock..MaxClock :
          LET docs == PopularityDocuments(locals.popularities, timestamp) IN
          /\ UtcNow(timestamp)
          /\ IF docs = <<>>
             THEN /\ exc' = "InvalidOperation" /\ pc' = "except"
                  /\ log' = Logged("insert_many", "InvalidOperation", Top.ids, 0)
                  /\ UNCHANGED factCol
             ELSE \E written \in 0..Len(docs) :
                     /\ factCol' = factCol \o SubSeq(docs, 1, written)
                     /\ IF written = Len(docs)
                        THEN /\ log' = Logged("insert_many", "ok", Top.ids, written)
                             /\ pc' = "pace"
                             /\ UNCHANGED exc
                        ELSE /\ log' = Logged("insert_many", "BulkWriteError",
                                              Top.ids, written)
                             /\ exc' = "BulkWriteError"
                             /\ pc' = "except"
    /\ locals' = NoLocals
    /\ UNCHANGED <<procVars, fleetVars, prev, stack, res, handled, indexCol, flagVars>>

\* sleep(worker_request_cooldown_seconds) after the store
PopularityPace ==
    /\ pc = "pace"
    /\ mode = "popularity"
    /\ log' = Logged("sleep", "pace", Top.ids, Top.cooldown)
    /\ pc' = "return"
    /\ UNCHANGED <<procVars, fleetVars, prev, stack, res, exc, locals, handled, clock, dbVars, flagVars>>

\* except KeyError, `not res.get("results")`: sleep(120); return
PopularityUnknown ==
    /\ pc = "except"
    /\ mode = "popularity"
    /\ exc = "KeyError"
    /\ ~TruthyResults(DictGet(res, "results"))
    /\ log' = Logged("sleep", "unknown", Top.ids, PopularityUnknownSleep)
    /\ exc' = NoError
    /\ pc' = "return"
    /\ UNCHANGED <<procVars, fleetVars, prev, stack, res, locals, handled, clock, dbVars, flagVars>>

\* except KeyError with results: parse res["detail"], sleep, fetch_popularity(...)
PopularityThrottled ==
    /\ pc = "except"
    /\ mode = "popularity"
    /\ exc = "KeyError"
    /\ TruthyResults(DictGet(res, "results"))
    /\ "detail" \in DOMAIN res
    /\ ThrottleParses(Get(res.detail))
    /\ Len(stack) < MaxDepth
    /\ prev' = Logged("sleep", "throttle", Top.ids, parse_throttle_res(Get(res.detail)))
    /\ log' = <<>>
    /\ stack' = Append(stack, PopularityRetryFrame(Top))
    /\ exc' = NoError
    /\ res' = NoResponse
    /\ pc' = "entry"
    /\ UNCHANGED <<procVars, fleetVars, locals, handled, clock, dbVars, flagVars>>

\* res["detail"] or parse_throttle_res raises inside the handler
PopularityThrottleRaises ==
    /\ pc = "except"
    /\ mode = "popularity"
    /\ exc = "KeyError"
    /\ TruthyResults(DictGet(res, "results"))
    /\ IF "detail" \notin DOMAIN res THEN Raise("KeyError")
       ELSE ~ThrottleParses(Get(res.detail)) /\ Raise("MalformedCooldown")
    /\ UNCHANGED <<procVars, fleetVars, prev, stack, res, locals, log, handled, clock, dbVars, flagVars>>

\* fetch_popularity without its `except JSONDecodeError` clause
CallSelfCaughtNoJSONDecodeError == {"ReadTimeout", "TypeError"}

\* the except clauses of fetch_popularity that end in call_self()
CallSelfCaught == {"ReadTimeout", "TypeError", "JSONDecodeError"}

\* call_self: sleep(30); fetch_popularity(...)
PopularityCallSelf ==
    /\ pc = "except"
    /\ mode = "popularity"
    /\ exc \in CallSelfCaught
    /\ Len(stack) < MaxDepth
    /\ prev' = Logged("sleep", exc, Top.ids, CallSelfSleep)
    /\ log' = <<>>
    /\ stack' = Append(stack, CallSelfFrame(Top))
    /\ exc' = NoError
    /\ res' = NoResponse
    /\ pc' = "entry"
    /\ UNCHANGED <<procVars, fleetVars, locals, handled, clock, dbVars, flagVars>>

\* any other exception leaves fetch_popularity
PopularityUncaught ==
    /\ pc = "except"
    /\ mode = "popularity"
    /\ exc \notin CallSelfCaught \cup {"KeyError"}
    /\ Raise(exc)
    /\ UNCHANGED <<procVars, fleetVars, prev, stack, res, locals, log, handled, clock, dbVars, flagVars>>

(* --------------------------- specification ---------------------------- *)
\* what earlier runs of the worker may have left in its collection
PriorDocuments(m) ==
    IF m = "quote" THEN {<<>>, <<map_quote(Q1)>>}
    ELSE {<<>>, <<[timestamp |-> 0, instrument_id |-> "1", popularity |-> 7]>>}

Init ==
    /\ mode \in Modes
    /\ configured \in ConfiguredCooldowns
    /\ body = ""
    /\ pc = "idle"
    /\ stack = <<>>
    /\ res = NoResponse
    /\ exc = NoError
    /\ locals = NoLocals
    /\ log = <<>>
    /\ prev = <<>>
    /\ handled = 0
    /\ clock = 0
    /\ indexCol \in [InstrumentIds -> {None, Some(FreshIndexEntry)}]
    /\ factCol \in PriorDocuments(mode)
    /\ quotesFinished = FALSE
    /\ popularitiesFinished = FALSE
    /\ queue = <<>>
    /\ inbox = <<>>
    /\ others = <<>>

Next ==
    \/ \E message \in Bodies(mode) : Deliver(message)
    \/ Return
    \/ FetchQuoteEntry
    \/ FetchQuote
    \/ StoreQuotesIndex
    \/ StoreQuotesInsert
    \/ QuotePace
    \/ QuoteUnknown
    \/ QuoteThrottled
    \/ QuoteThrottleUnparsable
    \/ QuoteInvalidTicker
    \/ QuoteReadTimeout
    \/ QuoteUncaught
    \/ FetchPopularityEntry
    \/ FetchPopularity
    \/ StorePopularities
    \/ PopularityPace
    \/ PopularityUnknown
    \/ PopularityThrottled
    \/ PopularityThrottleRaises
    \/ PopularityCallSelf
    \/ PopularityUncaught

Spec == Init /\ [][Next]_vars

\* the interpreter goes on executing the worker as long as it has a next step
LiveSpec == Spec /\ WF_vars(Next)

(* --------------- store_quotes called twice on one batch --------------- *)
\* the state in which store_quotes(quotes, collection) is entered with a batch
StoreTwiceInit ==
    /\ mode = "quote"
    /\ configured = DefaultCooldown
    /\ body = "AAPL,MSFT"
    /\ pc = "store_quotes"
    /\ stack = <<WorkFrame(body)>>
    /\ res \in {[results |-> Some(batch)] : batch \in QuoteBatches}
    /\ exc = NoError
    /\ locals = NoLocals
    /\ log = <<>>
    /\ prev = <<>>
    /\ handled = 1
    /\ clock = 0
    /\ indexCol \in [InstrumentIds -> {None, Some(FreshIndexEntry)}]
    /\ factCol \in PriorDocuments(mode)
    /\ quotesFinished = FALSE
    /\ popularitiesFinished = FALSE
    /\ queue = <<>>
    /\ inbox = <<>>
    /\ others = <<>>

\* store_quotes has returned and is called again with the same arguments; what
\* the first call did is kept in prev
StoreQuotesAgain ==
    /\ pc = "pace"
    /\ prev = <<>>
    /\ prev' = log
    /\ log' = <<>>
    /\ pc' = "store_quotes"
    /\ UNCHANGED <<procVars, fleetVars, stack, res, exc, locals, handled, clock, dbVars, flagVars>>

StoreTwiceNext ==
    \/ StoreQuotesIndex
    \/ StoreQuotesInsert
    \/ StoreQuotesAgain

StoreTwiceSpec == StoreTwiceInit /\ [][StoreTwiceNext]_vars

(* ------------- several workers consuming the mode's queue ------------- *)
\* what the producer has put on the queue: batches, then the sentinel
ProducerQueues(m) ==
    {<<batch, "__DONE">> : batch \in Bodies(m) \ {"__DONE", "__DONE "}}

\* the state of the worker process that is running
Process ==
    [configured |-> configured, body |-> body, pc |-> pc, stack |-> stack,
     res |-> res, exc |-> exc, locals |-> locals, log |-> log, prev |-> prev,
     handled |-> handled, inbox |-> inbox]

\* a worker process that has entered start_consuming
StartedProcess(cooldown) ==
    [configured |-> cooldown, body |-> "", pc |-> "idle", stack |-> <<>>,
     res |-> NoResponse, exc |-> NoError, locals |-> NoLocals, log |-> <<>>,
     prev |-> <<>>, handled |-> 0, inbox |-> <<>>]

FleetInit ==
    /\ mode \in Modes
    /\ configured = DefaultCooldown
    /\ body = ""
    /\ pc = "idle"
    /\ stack = <<>>
    /\ res = NoResponse
    /\ exc = NoError
    /\ locals = NoLocals
    /\ log = <<>>
    /\ prev = <<>>
    /\ handled = 0
    /\ clock = 0
    /\ indexCol = [id \in InstrumentIds |-> Some(FreshIndexEntry)]
    /\ factCol = <<>>
    /\ quotesFinished = FALSE
    /\ popularitiesFinished = FALSE
    /\ queue \in ProducerQueues(mode)
    /\ inbox = <<>>
    /\ others = <<StartedProcess(DefaultCooldown)>>

\* basic_consume(..., no_ack=True): the broker sends the head of the queue to
\* one of its consumers and forgets it; the consumer's connection holds it,
\* whatever its process is doing
BrokerDeliver ==
    /\ queue # <<>>
    /\ queue' = Tail(queue)
    /\ \/ /\ pc # "crashed"
          /\ inbox' = Append(inbox, Head(queue))
          /\ UNCHANGED others
       \/ /\ \E k \in 1..Len(others) :
                /\ others[k].pc # "crashed"
                /\ others' = [others EXCEPT ![k].inbox = Append(@, Head(queue))]
          /\ UNCHANGED inbox
    /\ UNCHANGED <<procVars, pc, stack, res, exc, locals, log, prev, handled, clock,
                   dbVars, flagVars>>

\* the connection calling handle_work from inside rabbitmq_connection.sleep
\* as well, on top of the invocation that sleeps
DispatchWhileSleeping ==
    /\ pc \in {"idle", "pace", "except"}
    /\ inbox # <<>>
    /\ inbox' = Tail(inbox)
    /\ handled' = handled + 1
    /\ body' = Head(inbox)
    /\ stack' = Append(stack, WorkFrame(Head(inbox)))
    /\ log' = <<>>
    /\ prev' = <<>>
    /\ res' = NoResponse
    /\ exc' = NoError
    /\ locals' = NoLocals
    /\ pc' = "entry"
    /\ UNCHANGED <<mode, configured, clock, dbVars, flagVars, queue, others>>

\* start_consuming: the connection calls handle_work with the next delivery it
\* holds, once no callback is running
Dispatch ==
    /\ pc = "idle"
    /\ inbox # <<>>
    /\ inbox' = Tail(inbox)
    /\ handled' = handled + 1
    /\ body' = Head(inbox)
    /\ stack' = <<WorkFrame(Head(inbox))>>
    /\ log' = <<>>
    /\ prev' = <<>>
    /\ res' = NoResponse
    /\ exc' = NoError
    /\ locals' = NoLocals
    /\ pc' = "entry"
    /\ UNCHANGED <<mode, configured, clock, dbVars, flagVars, queue, others>>

\* the operating system runs another worker process
Switch ==
    \E k \in 1..Len(others) :
        /\ others' = [others EXCEPT ![k] = Process]
        /\ configured' = others[k].configured
        /\ body' = others[k].body
        /\ pc' = others[k].pc
        /\ stack' = others[k].stack
        /\ res' = others[k].res
        /\ exc' = others[k].exc
        /\ locals' = others[k].locals
        /\ log' = others[k].log
        /\ prev' = others[k].prev
        /\ handled' = others[k].handled
        /\ inbox' = others[k].inbox
        /\ UNCHANGED <<mode, queue, clock, dbVars, flagVars>>

FleetNext ==
    \/ BrokerDeliver
    \/ Dispatch
    \/ Switch
    \/ Return
    \/ FetchQuoteEntry
    \/ FetchQuote
    \/ StoreQuotesIndex
    \/ StoreQuotesInsert
    \/ QuotePace
    \/ QuoteUnknown
    \/ QuoteThrottled
    \/ QuoteThrottleUnparsable
    \/ QuoteInvalidTicker
    \/ QuoteReadTimeout
    \/ QuoteUncaught
    \/ FetchPopularityEntry
    \/ FetchPopularity
    \/ StorePopularities
    \/ PopularityPace
    \/ PopularityUnknown
    \/ PopularityThrottled
    \/ PopularityThrottleRaises
    \/ PopularityCallSelf
    \/ PopularityUncaught

FleetSpec == FleetInit /\ [][FleetNext]_vars

(* ------------------------------ properties ---------------------------- *)
Setters == {"set_quotes_finished", "set_popularities_finished"}
OwnSetter == IF mode = "quote" THEN "set_quotes_finished" ELSE "set_popularities_finished"

\* a message has been delivered to handle_work
Invoked == handled > 0
\* the innermost frame has returned normally, or the whole invocation has
Returned == pc \in {"return", "idle"}
\* the frame that made the recursive call
Caller == stack[Len(stack) - 1]

\* the innermost frame's upstream call was answered with one of `shapes`
Answered(shapes) == log # <<>> /\ log[1].op = "api" /\ log[1].what \in shapes
\* the calling frame's upstream call was, and it then called the innermost frame
Retried(shapes) == prev # <<>> /\ prev[1].op = "api" /\ prev[1].what \in shapes

\* the calling frame did nothing after its upstream call but sleep `n` seconds
\* once, and called the innermost frame with its own arguments, which then
\* made (if anything) the same upstream call
SleptOnceThenSameCall(n) ==
    /\ Len(prev) = 2
    /\ prev[2].op = "sleep"
    /\ prev[2].n = n
    /\ prev[2].depth = prev[1].depth
    /\ ~Returned => /\ Len(stack) >= 2
                    /\ Len(stack) = prev[1].depth + 1
                    /\ Top = Caller
                    /\ Top.ids = prev[1].ids
    /\ log # <<>> => /\ log[1].op = "api"
                     /\ log[1].ids = prev[1].ids
                     /\ log[1].depth = prev[1].depth + 1

\* C1: a message is handled as the sentinel exactly when its body is __DONE:
\* then the invocation does nothing but call its own mode's setter once (no
\* upstream call, no write, no sleep, no recursion) and returns; for any other
\* body no frame of the invocation calls a setter. The other mode's flag is
\* never set.
SentinelIffBodyIsDone ==
    /\ mode = "quote" => ~popularitiesFinished
    /\ mode = "popularity" => ~quotesFinished
    /\ Invoked =>
          IF body = "__DONE"
          THEN /\ pc \in {"entry", "return", "idle"}
               /\ prev = <<>>
               /\ Len(stack) <= 1
               /\ IF pc = "entry" THEN log = <<>>
                  ELSE /\ Len(log) = 1
                       /\ log[1].op = OwnSetter
                       /\ (IF mode = "quote" THEN quotesFinished
                           ELSE popularitiesFinished)
          ELSE \A i \in 1..Len(prev \o log) : (prev \o log)[i].op \notin Setters

SentinelHandled ==
    /\ mode = "quote" /\ body = "__DONE" /\ pc = "idle"
    /\ quotesFinished /\ Len(log) = 1 /\ log[1].op = "set_quotes_finished"

\* C2: in quote mode a response without results whose detail is a retry-after
\* phrase of s seconds is never the end of the frame: the frame sleeps s seconds
\* once, writes nothing, and calls fetch_quote again with the same arguments,
\* which issues the same upstream request; so at every depth.
QuoteThrottleSleepsThenRetries ==
    mode = "quote" =>
        /\ Answered({"phrase"}) =>
              /\ pc = "except"
              /\ Len(log) = 1
              /\ (ENABLED QuoteThrottled) \/ Len(stack) >= MaxDepth
        /\ Retried({"phrase"}) => SleptOnceThenSameCall(prev[1].n)

QuoteThrottledTwiceRetried ==
    /\ mode = "quote" /\ configured # DefaultCooldown
    /\ Len(stack) = 3 /\ Retried({"phrase"}) /\ prev[1].n = 300 /\ prev[1].depth = 2
    /\ log # <<>> /\ log[1].op = "api" /\ log[1].ids = "AAPL,MSFT"

\* C3: in popularity mode a response without results whose detail is a
\* retry-after phrase of s seconds makes the frame sleep s seconds and call
\* fetch_popularity again for the same batch, not sleep 120 seconds and return.
PopularityThrottleSleepsThenRetries ==
    mode = "popularity" =>
        /\ Answered({"phrase"}) =>
              /\ pc = "except"
              /\ Len(log) = 1
        /\ Retried({"phrase"}) => SleptOnceThenSameCall(prev[1].n)

\* C4: in both modes a read timeout of the upstream call makes the frame sleep
\* 30 seconds once, write nothing, and call itself again with the same
\* arguments, which issues the same upstream request.
ReadTimeoutSleepsThirtyThenRetries ==
    /\ Answered({"ReadTimeout"}) =>
          /\ pc = "except"
          /\ Len(log) = 1
          /\ (ENABLED QuoteReadTimeout) \/ (ENABLED PopularityCallSelf)
                \/ Len(stack) >= MaxDepth
    /\ Retried({"ReadTimeout"}) => SleptOnceThenSameCall(30)

ReadTimeoutRetried ==
    /\ Retried({"ReadTimeout"}) /\ Len(stack) = 3 /\ configured # DefaultCooldown
    /\ log # <<>> /\ log[1].op = "api"

\* C5: in quote mode a malformed payload (JSONDecodeError or TypeError from the
\* upstream call) makes the frame sleep 30 seconds and call fetch_quote again;
\* the error does not leave fetch_quote.
QuoteMalformedSleepsThenRetries ==
    mode = "quote" =>
        /\ Answered({"JSONDecodeError", "TypeError"}) =>
              /\ pc = "except"
              /\ Len(log) = 1
        /\ Retried({"JSONDecodeError", "TypeError"}) => SleptOnceThenSameCall(30)

\* the attempts of fetch_popularity that end in a TypeError or JSONDecodeError
MalformedShapes == {"JSONDecodeError", "TypeError", "null_results", "none_record"}

\* C6: in popularity mode an attempt that fails with a JSONDecodeError or a
\* TypeError makes the frame sleep 30 seconds once and call fetch_popularity
\* again with the same arguments, at every depth.
PopularityMalformedSleepsThirtyThenRetries ==
    mode = "popularity" =>
        /\ Answered(MalformedShapes) =>
              /\ pc = "except"
              /\ Len(log) = 1
              /\ (ENABLED PopularityCallSelf) \/ Len(stack) >= MaxDepth
        /\ Retried(MalformedShapes) => SleptOnceThenSameCall(30)

PopularityMalformedTwiceRetried ==
    /\ mode = "popularity" /\ Len(stack) = 3
    /\ Retried({"JSONDecodeError"}) /\ prev[1].depth = 2
    /\ Answered({"TypeError"})

\* C7: in both modes a response with neither results nor detail makes the frame
\* sleep 120 seconds once and return: no write, no further upstream call, no
\* recursive call, no exception.
UnknownSleepsOnceThenAbandons ==
    /\ ~Retried({"neither"})
    /\ Answered({"neither"}) =>
          /\ pc \in {"except", "return", "idle"}
          /\ IF pc = "except" THEN Len(log) = 1
             ELSE /\ Len(log) = 2
                  /\ log[2].op = "sleep"
                  /\ log[2].n = 120
                  /\ exc = NoError

UnknownAbandoned ==
    /\ Answered({"neither"}) /\ pc = "idle" /\ Len(log) = 2 /\ log[2].n = 120

\* C8: no exception ever leaves fetch_quote or fetch_popularity.
NoErrorLeavesEntryPoint == pc # "crashed"

Paces(l) == {i \in 1..Len(l) : l[i].op = "sleep" /\ l[i].what = "pace"}

\* C9: a frame whose response carried a well-formed, non-empty result list
\* stores it, then sleeps once for the configured
\* worker_request_cooldown_seconds (at whatever depth of retries) and returns:
\* it does not end otherwise, the pacing sleep is the last thing it does and
\* follows its store, and no upstream call or recursive call comes after.
SuccessStoresThenPacesOnce ==
    /\ Paces(prev) = {}
    /\ \A i \in Paces(log) :
          /\ i = Len(log)
          /\ Returned
          /\ log[i].n = configured
          /\ log[1].op = "api"
          /\ IF mode = "quote"
             THEN /\ i = 4
                  /\ log[2].op = "bulk_write"
                  /\ log[3].op = "insert_many"
             ELSE /\ i = 3
                  /\ log[2].op = "insert_many"
    /\ Answered({"results"}) =>
          /\ pc # "crashed"
          /\ Returned => Paces(log) # {}

\* C10: in store_quotes a failure of the index bulk write never keeps the
\* insert of the quote documents from being attempted for the same batch.
IndexFailureNeverBlocksInsert ==
    (/\ pc \in {"crashed", "return", "idle"}
     /\ \E i \in 1..Len(log) : log[i].op = "bulk_write" /\ log[i].what = "BulkWriteError")
        => \E j \in 1..Len(log) : log[j].op = "insert_many"

\* the instrument an entry of a quote batch is for
InstrumentOf(quote) == parse_instrument_url(quote.instrument)

QuoteKey(doc) == <<doc.instrument_id, doc.updated_at>>
KeysOf(col) == {QuoteKey(col[j]) : j \in 1..Len(col)}

\* insert_many was called in this step
InsertManyCalled == pc = "insert" /\ Len(log') = Len(log) + 1

\* C12: when insert_many runs on a quote batch and no write fails for another
\* reason than a taken (instrument_id, updated_at) key, every record whose key
\* was free is committed once wherever it stands in the batch, no row is
\* written for a taken key, and the rows already there are unchanged; whatever
\* fails, store_quotes returns normally and fetch_quote goes on to its pacing
\* sleep.
CollisionsSkippedOthersCommitted ==
    /\ [][InsertManyCalled =>
             LET docs == MapQuotes(locals.quotes)
                 added == SubSeq(factCol', Len(factCol) + 1, Len(factCol'))
             IN /\ pc' = "pace"
                /\ exc' = NoError
                /\ SubSeq(factCol', 1, Len(factCol)) = factCol
                /\ \A j \in 1..Len(added) :
                      /\ added[j] \in Range(docs)
                      /\ QuoteKey(added[j]) \notin KeysOf(factCol)
                      /\ \A k \in 1..Len(added) :
                            QuoteKey(added[k]) = QuoteKey(added[j]) => k = j
                /\ Last(log').what # "BulkWriteError printed" =>
                      \A i \in 1..Len(docs) :
                          QuoteKey(docs[i]) \notin KeysOf(factCol)
                              => QuoteKey(docs[i]) \in KeysOf(added)
         ]_vars
    /\ [](mode = "quote" /\ Len(log) >= 3 /\ log[3].op = "insert_many" =>
             /\ pc \in {"pace", "return", "idle"}
             /\ pc # "pace" => Len(log) = 4 /\ log[4].what = "pace")

CollidingFirstLaterRecordCommitted ==
    /\ mode = "quote" /\ pc = "return" /\ Len(log) = 4
    /\ res.results = Some(<<Q1, NoneEntry, Q2>>)
    /\ log[3].what = "BulkWriteError duplicate key" /\ log[3].n = 1
    /\ log[4].what = "pace"
    /\ factCol = <<map_quote(Q1), map_quote(Q2)>>

\* what the index says of an instrument's tradability
IndexStatus(entry) ==
    IF IsNone(entry) THEN None
    ELSE Some([has_traded |-> Get(entry).has_traded,
               updated_at |-> Get(entry).updated_at,
               trading_halted |-> Get(entry).trading_halted])

\* store_quotes is running for the second time on the batch, the first call
\* having lost no write to a failure other than a taken key
SecondStoreOfBatch ==
    /\ pc \in {"store_quotes", "insert"}
    /\ Len(prev) = 2
    /\ prev[2].op = "insert_many"
    /\ prev[2].what # "BulkWriteError printed"

\* C13: the second store_quotes of a batch changes nothing the first one left:
\* the quote collection is the same (no row added, none changed), the index has
\* the same entries with the same has_traded, updated_at and trading_halted, and
\* its insert, meeting taken keys only, returns normally.
StoringBatchTwiceIsIdempotent ==
    [][SecondStoreOfBatch =>
          /\ factCol' = factCol
          /\ \A id \in InstrumentIds : IndexStatus(indexCol'[id]) = IndexStatus(indexCol[id])
          /\ InsertManyCalled =>
                /\ pc' = "pace"
                /\ Last(log').n = 0
                /\ Last(log').what \in {"BulkWriteError duplicate key", "BulkWriteError printed"}
      ]_vars

BatchStoredTwice ==
    /\ pc = "pace" /\ Len(prev) = 2 /\ prev[2].what = "ok" /\ prev[2].n = 2
    /\ Len(log) = 2 /\ log[2].what = "BulkWriteError duplicate key" /\ log[2].n = 0
    /\ Len(factCol) = 2
    /\ clock = 1 /\ ~IsNone(indexCol["1"]) /\ Get(indexCol["1"]).timestamp = Some(1)

\* C14: a store_popularities that succeeds appends to the popularity collection
\* exactly one row per distinct instrument_id of the result list, holding the
\* num_open_positions of the last result with that id, all rows with the one
\* timestamp read in the call; the rows already there stay, so an instrument
\* with k successful calls has k rows.
OnePopularityRowPerInstrumentPerCall ==
    [][(pc = "store_popularities" /\ pc' = "pace") =>
          LET results == Get(res.results)
              ids == {InstrumentOf(results[i]) : i \in 1..Len(results)}
              added == SubSeq(factCol', Len(factCol) + 1, Len(factCol'))
              LastOf(id) == CHOOSE i \in 1..Len(results) :
                                /\ InstrumentOf(results[i]) = id
                                /\ \A j \in (i + 1)..Len(results) :
                                      InstrumentOf(results[j]) # id
          IN /\ SubSeq(factCol', 1, Len(factCol)) = factCol
             /\ Len(added) = Cardinality(ids)
             /\ \A id \in ids :
                   \E j \in 1..Len(added) :
                       /\ added[j].instrument_id = id
                       /\ added[j].popularity = results[LastOf(id)].num_open_positions
             /\ \A j \in 1..Len(added) : added[j].timestamp = clock'
      ]_vars

SecondRowForInstrumentLastCountWins ==
    /\ mode = "popularity" /\ pc = "return" /\ Len(log) = 3 /\ log[3].what = "pace"
    /\ res.results = Some(<<P1, P2, P1Again>>)
    /\ Len(factCol) = 3 /\ clock = 1
    /\ factCol[1].instrument_id = "1" /\ factCol[1].timestamp = 0
    /\ factCol[2].instrument_id = "1" /\ factCol[2].popularity = 9
    /\ factCol[3].instrument_id = "2" /\ factCol[3].timestamp = 1

\* C15: in quote mode an upstream call that raises InvalidTickerSymbol ends the
\* frame at once: it returns normally having done nothing else, so no sleep, no
\* write, no recursive call and no exception.
InvalidTickerReturnsAtOnce ==
    /\ ~Retried({"InvalidTickerSymbol"})
    /\ Answered({"InvalidTickerSymbol"}) =>
          /\ mode = "quote"
          /\ Len(log) = 1
          /\ pc \in {"except", "return", "idle"}
          /\ pc # "except" => exc = NoError
          /\ Len(stack) <= log[1].depth

InvalidTickerAbandoned ==
    /\ Answered({"InvalidTickerSymbol"}) /\ pc = "idle" /\ Len(log) = 1
    /\ log[1].depth = 2 /\ Retried({"phrase"})

\* answers that are not RateLimited, Timeout or Malformed: Success, Unknown, NotFound
FinalShapes == {"results", "neither", "InvalidTickerSymbol"}
\* answers that are RateLimited, Timeout or Malformed
TransientShapes == {"phrase", "ReadTimeout", "JSONDecodeError", "TypeError"}

\* C17: every invocation, once a frame of it is the sentinel's or has an answer
\* that is not RateLimited, Timeout or Malformed, eventually ends and returns
\* control to the dispatch loop; while its answers are transient it does not end.
EveryInvocationReturnsToCaller ==
    /\ ((Invoked /\ (body = "__DONE" \/ Answered(FinalShapes))) ~> (pc = "idle"))
    /\ [](Answered(TransientShapes) => pc \notin {"return", "idle", "crashed"})

\* C18: what a frame does after its upstream call depends on the answer's class
\* only, at any number of earlier attempts: a transient answer is always
\* followed by one sleep and the next attempt, and nothing else starts one, so
\* attempt d + 1 exists exactly when the first d answers were transient and the
\* invocation has then slept d times.
AttemptsAreOnePlusTransientAnswers ==
    /\ Answered(TransientShapes) =>
          /\ pc = "except"
          /\ Len(log) = 1
          /\ Len(stack) = log[1].depth
    /\ prev # <<>> =>
          /\ Retried(TransientShapes)
          /\ prev[1].depth >= 1
          /\ SleptOnceThenSameCall(prev[2].n)

Writes == {"bulk_write", "insert_many"}
Wrote(l) == {i \in 1..Len(l) : l[i].op \in Writes}

\* C19: within an invocation only a frame whose response carried results
\* writes, a frame that wrote never goes on to another attempt (so a batch is
\* stored at most once), and a frame that has ended having written the index
\* has also made the insert of the batch's documents.
PersistenceAtMostOnceAndWhole ==
    /\ Wrote(prev) = {}
    /\ Wrote(log) # {} =>
          /\ log[1].op = "api"
          /\ log[1].what \in {"results", "results+detail", "bad_records", "empty_results"}
          /\ \A i, j \in Wrote(log) : log[i].op = log[j].op => i = j
    /\ (/\ mode = "quote"
        /\ pc \in {"return", "idle", "crashed"}
        /\ \E i \in Wrote(log) : log[i].op = "bulk_write" /\ log[i].n > 0)
          => \E j \in Wrote(log) : log[j].op = "insert_many"

PhaseFinished == IF mode = "quote" THEN quotesFinished ELSE popularitiesFinished
Processes == {Process} \cup Range(others)

\* C20: when the mode's phase-complete flag is set, no batch that was put on
\* the queue before the sentinel is still held undispatched, being fetched,
\* cooled down for or stored by any worker process of the mode.
FlagSetMeansEveryBatchEnded ==
    PhaseFinished =>
        /\ \A i \in 1..Len(queue) : queue[i] = "__DONE"
        /\ \A w \in Processes :
              /\ \A i \in 1..Len(w.inbox) : w.inbox[i] = "__DONE"
              /\ (w.handled > 0 /\ w.body # "__DONE") => w.pc \in {"idle", "crashed"}

====
